---- MODULE Spec2Model ----
(***************************************************************************)
(* Grover amplitude-amplification simulation (src/src/grover.c): the       *)
(* oracle / diffusion kernel, the OpenMP-parallel diffusion, the iteration *)
(* driver run_grover_once and the command-line harness main.               *)
(*                                                                         *)
(* Arithmetic.  The amplitudes are C doubles.  The model computes them     *)
(* exactly, in the field Q(sqrt 2): a value is (p + q*sqrt(2)) / d with    *)
(* integers p, q and d > 0, kept in lowest terms.  Every operation of the  *)
(* kernel is linear (negation, addition, subtraction, multiplication and   *)
(* division by an integer), and 1/sqrt(N) lies in Q(sqrt 2) for every      *)
(* power of two N, so the field is closed under the program.  Rounding of  *)
(* the double operations is not modelled.                                  *)
(***************************************************************************)
EXTENDS Integers, Sequences, FiniteSets, TLC

\* ------------------------------------------------------------------ bounds
MaxN == 4          \* largest vector size run_grover_once is run with
MaxT == 4          \* largest OpenMP thread count
MaxIter == 2       \* largest iteration count passed to run_grover_once
MaxLen == 3        \* largest vector length the kernel harness draws
MaxKT == 3         \* largest thread count the kernel harness draws
MaxCalls == 2      \* rounds the kernel harness performs
MaxFail == 1       \* mallocs that may fail in one execution
MaxArgN == 8       \* every |N| up to this is tried on the command line
WordBits == 28     \* width of size_t / long long (64 in the build, scaled)

\* ------------------------------------------------- exact amplitude values
Abs(x) == IF x < 0 THEN -x ELSE x

RECURSIVE GCD(_, _)
GCD(x, y) == IF y = 0 THEN x ELSE GCD(y, x % y)

\* (p + q*sqrt 2)/d in lowest terms, d > 0.
RNorm(p, q, d) ==
    LET g == GCD(GCD(Abs(p), Abs(q)), d)
    IN  [p |-> p \div g, q |-> q \div g, d |-> d \div g]

Zero == [p |-> 0, q |-> 0, d |-> 1]
Rat(n, d) == RNorm(n, 0, d)

RNeg(x) == [p |-> -x.p, q |-> -x.q, d |-> x.d]
RAdd(x, y) == RNorm(x.p * y.d + y.p * x.d, x.q * y.d + y.q * x.d, x.d * y.d)
RSub(x, y) == RAdd(x, RNeg(y))
RScale(k, x) == RNorm(k * x.p, k * x.q, x.d)
RDiv(x, n) == RNorm(x.p, x.q, x.d * n)

\* ----------------------------------------------------------------- kernel
RECURSIVE Log2(_)
Log2(n) == IF n <= 1 THEN 0 ELSE 1 + Log2(n \div 2)

Pow2(e) == 2 ^ e

\* 1.0 / sqrt((double)N) for a power of two N = 2^e:
\* 1/2^(e/2) when e is even, sqrt(2)/2^((e+1)/2) when e is odd.
InvSqrt_nosqrt(n) == RNorm(1, 0, n)
InvSqrt(n) ==
    LET e == Log2(n)
    IN  IF e % 2 = 0 THEN RNorm(1, 0, Pow2(e \div 2))
                     ELSE RNorm(0, 1, Pow2((e + 1) \div 2))

init_state(n) == [i \in 0..(n - 1) |-> InvSqrt(n)]

oracle_noflip(v, t) == v
oracle(v, t) == [v EXCEPT ![t] = RNeg(v[t])]

\* sum = 0.0; for (i = 0; i < N; ++i) sum += a[i];
RECURSIVE SumUpTo(_, _)
SumUpTo(v, k) == IF k = 0 THEN Zero ELSE RAdd(SumUpTo(v, k - 1), v[k - 1])

Reflect(mn, x) == RSub(RScale(2, mn), x)

diffusion_serial_halfmean(v, n) ==
    LET mn == RDiv(SumUpTo(v, n), 2 * n)
    IN  [i \in 0..(n - 1) |-> Reflect(mn, v[i])]
diffusion_serial(v, n) ==
    LET mn == RDiv(SumUpTo(v, n), n)
    IN  [i \in 0..(n - 1) |-> Reflect(mn, v[i])]

\* The loop schedules of a parallel for over 0..n-1 with a team of t threads:
\* cut points c[0] = 0 <= c[1] <= ... <= c[t] = n; thread w runs the
\* iterations c[w-1] .. c[w]-1, each iteration run by exactly one thread.
Schedules_droplast(n, t) ==
    {c \in [0..t -> 0..n] :
        /\ c[0] = 0
        /\ c[t] = IF t > 1 THEN n - 1 ELSE n
        /\ \A w \in 1..t : c[w - 1] <= c[w]}
Schedules(n, t) ==
    {c \in [0..t -> 0..n] :
        /\ c[0] = 0
        /\ c[t] = n
        /\ \A w \in 1..t : c[w - 1] <= c[w]}

\* omp_set_num_threads(threads): a non-positive argument leaves a team of one.
TeamSize(threads) == IF threads > 0 THEN threads ELSE 1

\* x & y on unsigned values.
RECURSIVE BitAnd(_, _)
BitAnd(x, y) ==
    IF x = 0 \/ y = 0 THEN 0
    ELSE (x % 2) * (y % 2) + 2 * BitAnd(x \div 2, y \div 2)

\* x && ((x & (x - 1)) == 0) on an unsigned long x.
is_power_of_two(x) == x # 0 /\ BitAnd(x, x - 1) = 0

\* (size_t)atoll(argv[2]): a negative value wraps modulo 2^WordBits.
ToSize(n) == IF n < 0 THEN n + Pow2(WordBits) ELSE n

\* sizeof(double) * N in size_t arithmetic (the product modulo 2^WordBits).
AllocBytes(n) == 8 * (n % Pow2(WordBits - 3))

\* (int)floor(M_PI/4.0 * sqrt((double)N)) for a power of two N = 2^e, in
\* fixed point: pi/4 = 51471/2^16 and (pi/4)*sqrt(2) = 72792/2^16, rounded
\* down, which gives the exact floor for every e up to 30.
Iterations(n) ==
    LET e == Log2(n)
    IN  IF e % 2 = 0 THEN (51471 * Pow2(e \div 2)) \div 65536
                     ELSE (72792 * Pow2((e - 1) \div 2)) \div 65536

\* size_t sizes[] = {1<<12, 1<<14, 1<<16, 1<<18, 1<<20, 1<<22, 1<<24};
sizes == <<Pow2(12), Pow2(14), Pow2(16), Pow2(18), Pow2(20), Pow2(22), Pow2(24)>>
n_sizes == Len(sizes)
trials == 3

\* size_t target = (N > 1) ? (N/3) : 0;
SweepTarget(n) == IF n > 1 THEN n \div 3 ELSE 0

Header == "mode,N,iterations,threads,time_seconds"

\* --------------------------------------------------------------- variables
VARIABLES
    N, target, iterations, parallel, threads,   \* arguments of run_grover_once
    useOracle,      \* FALSE only in the kernel harness: rounds without oracle
    a,              \* the amplitude vector, 0..N-1 -> value (<<>> when not allocated)
    a0,             \* the vector before the first round
    ref,            \* the same rounds performed with diffusion_serial
    pre,            \* the vector at entry of the current diffusion
    it,             \* loop counter of run_grover_once
    pc,             \* position in run_grover_once
    ret,            \* its return value: "none", "elapsed" (t1 - t0) or "-1.0"
    sum, mean,      \* locals of diffusion_parallel
    sched,          \* the schedule of the running parallel for
    wpos,           \* per thread: next iteration of its chunk
    wsum,           \* per thread: private copy of the reduction variable
    wjoined,        \* threads whose private sum has been combined into sum
    nOracle, nDiff, \* oracle calls and diffusion calls completed so far
    nAlloc,         \* vectors allocated so far
    mode,           \* argv[1]: "serial", "parallel", or "sweep" (anything else)
    argN, argT,     \* atoll(argv[2]) and atoi(argv[3])
    mpc,            \* position in main
    si, tr,         \* loop counters of the sweep
    sthreads,       \* the sweep's local `threads`
    out,            \* lines printed on stdout
    file,           \* lines written to data/results.csv
    err,            \* last message on stderr
    exitStatus,     \* exit status of the process, -1 while it runs
    runs,           \* the calls of run_grover_once made so far
    icv,            \* OpenMP nthreads-var: omp_get_max_threads()
    failsLeft       \* mallocs that may still fail

args == <<N, target, iterations, parallel, threads, useOracle>>
hist == <<a0, ref, pre>>
omp == <<sum, mean, sched, wpos, wsum, wjoined>>
kvars == <<args, hist, omp, a, it, pc, ret, nOracle, nDiff, nAlloc>>
margs == <<mode, argN, argT>>
sweep == <<si, tr, sthreads>>
io == <<out, file, exitStatus>>
mvars == <<margs, sweep, io, mpc, err, runs, icv, failsLeft>>
vars == <<kvars, mvars>>

Team == 1..TeamSize(threads)
NoWorkers == [w \in Team |-> 0]
NoSums == [w \in Team |-> Zero]

\* Thread w still has iterations of the running parallel for to execute.
Pending(w) == wpos[w] < sched[w]

\* ------------------------------------------------ run_grover_once: actions
\* a = malloc(sizeof(double) * N) succeeds; init_state(a, N).
MallocOk ==
    /\ pc = "malloc"
    /\ a' = init_state(N)
    /\ a0' = init_state(N)
    /\ ref' = init_state(N)
    /\ pc' = "loop"
    /\ UNCHANGED <<args, omp, pre, it, ret, nOracle, nDiff, nAlloc>>
    /\ UNCHANGED mvars

\* malloc returns NULL: "allocation failed", return -1.0.
MallocFail ==
    /\ pc = "malloc"
    /\ failsLeft > 0
    /\ failsLeft' = failsLeft - 1
    /\ err' = "allocation failed"
    /\ ret' = "-1.0"
    /\ pc' = "done"
    /\ UNCHANGED <<args, hist, omp, a, it, nOracle, nDiff, nAlloc>>
    /\ UNCHANGED <<margs, sweep, io, mpc, runs, icv>>

\* it < iterations: oracle(a, target).
Oracle ==
    /\ pc = "loop"
    /\ it < iterations
    /\ useOracle
    /\ a' = oracle(a, target)
    /\ ref' = oracle(ref, target)
    /\ nOracle' = nOracle + 1
    /\ pc' = "diffusion"
    /\ UNCHANGED <<args, omp, a0, pre, it, ret, nDiff, nAlloc>>
    /\ UNCHANGED mvars

\* if (!parallel) diffusion_serial(a, N); ++it.
DiffusionSerial ==
    /\ pc = "diffusion"
    /\ parallel = 0
    /\ pre' = a
    /\ a' = diffusion_serial(a, N)
    /\ ref' = diffusion_serial(ref, N)
    /\ nDiff' = nDiff + 1
    /\ it' = it + 1
    /\ pc' = "loop"
    /\ UNCHANGED <<args, omp, a0, ret, nOracle, nAlloc>>
    /\ UNCHANGED mvars

\* if (parallel) diffusion_parallel(a, N, threads): omp_set_num_threads,
\* sum = 0.0 and the team is forked for the first parallel for, each thread
\* with a private sum of 0.
ForkReduce ==
    /\ pc = "diffusion"
    /\ parallel # 0
    /\ pre' = a
    /\ sum' = Zero
    /\ \E c \in Schedules(N, TeamSize(threads)) :
          /\ sched' = [w \in Team |-> c[w]]
          /\ wpos' = [w \in Team |-> c[w - 1]]
    /\ wsum' = NoSums
    /\ wjoined' = {}
    /\ icv' = TeamSize(threads)
    /\ pc' = "reduce"
    /\ UNCHANGED <<args, a, a0, ref, it, ret, mean, nOracle, nDiff, nAlloc>>
    /\ UNCHANGED <<margs, sweep, io, mpc, err, runs, failsLeft>>

\* One iteration of the first loop by thread w: (private) sum += a[i].
WorkerAdd(w) ==
    /\ pc = "reduce"
    /\ w \notin wjoined
    /\ Pending(w)
    /\ wsum' = [wsum EXCEPT ![w] = RAdd(wsum[w], a[wpos[w]])]
    /\ wpos' = [wpos EXCEPT ![w] = wpos[w] + 1]
    /\ UNCHANGED <<args, hist, a, it, pc, ret, sum, mean, sched, wjoined, nOracle, nDiff, nAlloc>>
    /\ UNCHANGED mvars

\* reduction(+ : sum): thread w, its chunk finished, adds its private copy
\* to the shared sum (atomically, in whatever order the threads arrive).
WorkerCombine(w) ==
    /\ pc = "reduce"
    /\ w \notin wjoined
    /\ ~Pending(w)
    /\ sum' = RAdd(sum, wsum[w])
    /\ wjoined' = wjoined \cup {w}
    /\ UNCHANGED <<args, hist, a, it, pc, ret, mean, sched, wpos, wsum, nOracle, nDiff, nAlloc>>
    /\ UNCHANGED mvars

\* End of the first parallel region (implicit barrier and join; the private
\* copies of sum are gone), then mean = sum / N and the fork of the second
\* parallel for.
JoinReduce_nobarrier ==
    /\ pc = "reduce"
    /\ mean' = RDiv(sum, N)
    /\ \E c \in Schedules(N, TeamSize(threads)) :
          /\ sched' = [w \in Team |-> c[w]]
          /\ wpos' = [w \in Team |-> c[w - 1]]
    /\ wsum' = NoSums
    /\ pc' = "update"
    /\ UNCHANGED <<args, hist, a, it, ret, sum, wjoined, nOracle, nDiff, nAlloc>>
    /\ UNCHANGED mvars
JoinReduce ==
    /\ pc = "reduce"
    /\ wjoined = Team
    /\ mean' = RDiv(sum, N)
    /\ \E c \in Schedules(N, TeamSize(threads)) :
          /\ sched' = [w \in Team |-> c[w]]
          /\ wpos' = [w \in Team |-> c[w - 1]]
    /\ wsum' = NoSums
    /\ pc' = "update"
    /\ UNCHANGED <<args, hist, a, it, ret, sum, wjoined, nOracle, nDiff, nAlloc>>
    /\ UNCHANGED mvars

\* One iteration of the second loop by thread w: a[i] = 2.0 * mean - a[i].
WorkerWrite(w) ==
    /\ pc = "update"
    /\ Pending(w)
    /\ a' = [a EXCEPT ![wpos[w]] = Reflect(mean, a[wpos[w]])]
    /\ wpos' = [wpos EXCEPT ![w] = wpos[w] + 1]
    /\ UNCHANGED <<args, hist, it, pc, ret, sum, mean, sched, wsum, wjoined, nOracle, nDiff, nAlloc>>
    /\ UNCHANGED mvars

\* End of the second parallel region (implicit barrier and join):
\* diffusion_parallel returns; ++it.
JoinUpdate_nobarrier ==
    /\ pc = "update"
    /\ ref' = diffusion_serial(ref, N)
    /\ nDiff' = nDiff + 1
    /\ it' = it + 1
    /\ pc' = "loop"
    /\ UNCHANGED <<args, omp, a, a0, pre, ret, nOracle, nAlloc>>
    /\ UNCHANGED mvars
JoinUpdate ==
    /\ pc = "update"
    /\ \A w \in Team : ~Pending(w)
    /\ ref' = diffusion_serial(ref, N)
    /\ nDiff' = nDiff + 1
    /\ it' = it + 1
    /\ pc' = "loop"
    /\ UNCHANGED <<args, omp, a, a0, pre, ret, nOracle, nAlloc>>
    /\ UNCHANGED mvars

\* it >= iterations: t1 = now_seconds(); free(a); return t1 - t0.
Return ==
    /\ pc = "loop"
    /\ it >= iterations
    /\ a' = <<>>
    /\ ret' = "elapsed"
    /\ pc' = "done"
    /\ UNCHANGED <<args, hist, omp, it, nOracle, nDiff, nAlloc>>
    /\ UNCHANGED mvars

\* main is not part of the run: its variables stay as they are here.
MainIdle ==
    /\ mode = "none" /\ argN = 0 /\ argT = 0
    /\ mpc = "none"
    /\ si = 0 /\ tr = 0 /\ sthreads = 0
    /\ out = <<>> /\ file = <<>> /\ err = "none"
    /\ exitStatus = -1
    /\ runs = <<>>
    /\ icv \in 1..MaxT
    /\ failsLeft = MaxFail

\* The sizes run_grover_once is run with: the powers of two up to MaxN.
RunSizes == {n \in 1..MaxN : is_power_of_two(n)}

Init ==
    /\ N \in RunSizes
    /\ target \in 0..(N - 1)
    /\ iterations \in 0..MaxIter
    /\ parallel \in {0, 1}
    /\ threads \in IF parallel = 0 THEN {1} ELSE 1..MaxT
    /\ useOracle = TRUE
    /\ a = <<>> /\ a0 = <<>> /\ ref = <<>> /\ pre = <<>>
    /\ it = 0
    /\ pc = "malloc"
    /\ ret = "none"
    /\ sum = Zero /\ mean = Zero
    /\ sched = NoWorkers /\ wpos = NoWorkers /\ wsum = NoSums
    /\ wjoined = {}
    /\ nOracle = 0 /\ nDiff = 0 /\ nAlloc = 0
    /\ MainIdle

Next ==
    \/ MallocOk
    \/ MallocFail
    \/ Oracle
    \/ DiffusionSerial
    \/ ForkReduce
    \/ \E w \in Team : WorkerAdd(w)
    \/ \E w \in Team : WorkerCombine(w)
    \/ JoinReduce
    \/ \E w \in Team : WorkerWrite(w)
    \/ JoinUpdate
    \/ Return

Spec == Init /\ [][Next]_vars

\* ------------------------------------------------------- kernel harness
\* The kernel applied to arbitrary vectors of any length 1..MaxLen: MaxCalls
\* rounds of diffusion (serial, or parallel with any thread count), each
\* preceded by the oracle (useOracle) or by nothing.  The marked index is
\* N/3, as in the sweep.
Vals == {Rat(1, 2), Rat(-3, 1), RNorm(0, 1, 2)}

\* A round of the harness without oracle.
SkipOracle ==
    /\ pc = "loop"
    /\ it < iterations
    /\ ~useOracle
    /\ pc' = "diffusion"
    /\ UNCHANGED <<args, hist, omp, a, it, ret, nOracle, nDiff, nAlloc>>
    /\ UNCHANGED mvars

InitKernel ==
    /\ N \in 1..MaxLen
    /\ a \in [0..(N - 1) -> Vals]
    /\ a0 = a /\ ref = a /\ pre = <<>>
    /\ useOracle \in BOOLEAN
    /\ target = N \div 3
    /\ iterations = MaxCalls
    /\ parallel \in {0, 1}
    /\ threads \in IF parallel = 0 THEN {1} ELSE 1..MaxKT
    /\ it = 0
    /\ pc = "loop"
    /\ ret = "none"
    /\ sum = Zero /\ mean = Zero
    /\ sched = NoWorkers /\ wpos = NoWorkers /\ wsum = NoSums
    /\ wjoined = {}
    /\ nOracle = 0 /\ nDiff = 0 /\ nAlloc = 0
    /\ MainIdle

NextKernel ==
    \/ Oracle
    \/ SkipOracle
    \/ DiffusionSerial
    \/ ForkReduce
    \/ \E w \in Team : WorkerAdd(w)
    \/ \E w \in Team : WorkerCombine(w)
    \/ JoinReduce
    \/ \E w \in Team : WorkerWrite(w)
    \/ JoinUpdate
    \/ Return

SpecKernel == InitKernel /\ [][NextKernel]_vars

\* ------------------------------------------------------------------ main
\* In main's executions the contents of the vector are not tracked: the
\* vector is local to run_grover_once and freed before it returns; what main
\* observes is the return value.  The round loop is one step.

\* The command lines tried: every N of small magnitude, every power of two
\* and its negative within long long, and the largest long long; T from -1.
ArgNs ==
    (-MaxArgN..MaxArgN)
        \cup {Pow2(e) : e \in 0..(WordBits - 2)}
        \cup {-Pow2(e) : e \in 0..(WordBits - 1)}
        \cup {6, -6, Pow2(WordBits - 1) - 1}
ArgTs == -1..MaxT
RandVals == {0, 1, 2147483647}

KernelIdle ==
    /\ N = 0 /\ target = 0 /\ iterations = 0 /\ parallel = 0 /\ threads = 1
    /\ useOracle = TRUE
    /\ a = <<>> /\ a0 = <<>> /\ ref = <<>> /\ pre = <<>>
    /\ it = 0
    /\ pc = "idle"
    /\ ret = "none"
    /\ sum = Zero /\ mean = Zero
    /\ sched = NoWorkers /\ wpos = NoWorkers /\ wsum = NoSums
    /\ wjoined = {}
    /\ nOracle = 0 /\ nDiff = 0 /\ nAlloc = 0

InitMain ==
    /\ mode \in {"sweep", "serial", "parallel"}
    /\ argN \in IF mode = "sweep" THEN {0} ELSE ArgNs
    /\ argT \in IF mode = "parallel" THEN ArgTs ELSE {0}
    /\ mpc = "start"
    /\ si = 0 /\ tr = 0 /\ sthreads = 0
    /\ out = <<>> /\ file = <<>> /\ err = "none"
    /\ exitStatus = -1
    /\ runs = <<>>
    /\ icv \in 1..MaxT
    /\ failsLeft = MaxFail
    /\ KernelIdle

\* run_grover_once(n, t, i, p, th) is entered.
Call(n, t, i, p, th) ==
    /\ N' = n /\ target' = t /\ iterations' = i /\ parallel' = p /\ threads' = th
    /\ it' = 0
    /\ ret' = "none"
    /\ pc' = "malloc"
    /\ runs' = Append(runs, [N |-> n, target |-> t, iterations |-> i,
                             parallel |-> p, threads |-> th])
    /\ UNCHANGED <<useOracle, hist, omp, a, nOracle, nDiff, nAlloc>>

\* malloc(sizeof(double) * N) returns a block.  When the product has wrapped
\* the block is smaller than N doubles and init_state writes past its end.
MallocOkMain ==
    /\ mpc \in {"call", "serial_call", "parallel_call"}
    /\ pc = "malloc"
    /\ nAlloc' = nAlloc + 1
    /\ pc' = IF AllocBytes(N) \div 8 < N THEN "overflow" ELSE "loop"
    /\ UNCHANGED <<args, hist, omp, a, it, ret, nOracle, nDiff>>
    /\ UNCHANGED mvars

\* init_state writes outside the block: the process is killed (SIGSEGV).
InitOverflow ==
    /\ pc = "overflow"
    /\ pc' = "crashed"
    /\ mpc' = "exit"
    /\ exitStatus' = 139
    /\ UNCHANGED <<args, hist, omp, a, it, ret, nOracle, nDiff, nAlloc>>
    /\ UNCHANGED <<margs, sweep, out, file, err, runs, icv, failsLeft>>

\* for (it = 0; it < iterations; ++it) { oracle; diffusion }: all the rounds.
\* A parallel diffusion sets nthreads-var by omp_set_num_threads(threads).
RoundsMain ==
    /\ mpc \in {"call", "serial_call", "parallel_call"}
    /\ pc = "loop"
    /\ it < iterations
    /\ it' = iterations
    /\ nOracle' = nOracle + (iterations - it)
    /\ nDiff' = nDiff + (iterations - it)
    /\ icv' = IF parallel # 0 THEN TeamSize(threads) ELSE icv
    /\ UNCHANGED <<args, hist, omp, a, pc, ret, nAlloc>>
    /\ UNCHANGED <<margs, sweep, io, mpc, err, runs, failsLeft>>

\* "serial" N with N not a power of two: "N must be power of two", return 1.
MainSerialReject ==
    /\ mpc = "start" /\ mode = "serial"
    /\ ~is_power_of_two(ToSize(argN))
    /\ err' = "N must be power of two"
    /\ exitStatus' = 1
    /\ mpc' = "exit"
    /\ UNCHANGED <<kvars, margs, sweep, out, file, runs, icv, failsLeft>>

\* "serial" N: iterations, target = rand() % N, run_grover_once(.., 0, 1).
MainSerialCall ==
    /\ mpc = "start" /\ mode = "serial"
    /\ is_power_of_two(ToSize(argN))
    /\ \E r \in RandVals :
          Call(ToSize(argN), r % ToSize(argN), Iterations(ToSize(argN)), 0, 1)
    /\ mpc' = "call"
    /\ UNCHANGED <<margs, sweep, io, err, icv, failsLeft>>

\* "parallel" N T with N not a power of two.
MainParallelReject ==
    /\ mpc = "start" /\ mode = "parallel"
    /\ ~is_power_of_two(ToSize(argN))
    /\ err' = "N must be power of two"
    /\ exitStatus' = 1
    /\ mpc' = "exit"
    /\ UNCHANGED <<kvars, margs, sweep, out, file, runs, icv, failsLeft>>

\* "parallel" N T: threads = atoi(argv[3]) is passed on as it is.
MainParallelCall ==
    /\ mpc = "start" /\ mode = "parallel"
    /\ is_power_of_two(ToSize(argN))
    /\ \E r \in RandVals :
          Call(ToSize(argN), r % ToSize(argN), Iterations(ToSize(argN)), 1, argT)
    /\ mpc' = "call"
    /\ UNCHANGED <<margs, sweep, io, err, icv, failsLeft>>

Record(m, th) ==
    [mode |-> m, N |-> N, iterations |-> iterations, threads |-> th, t |-> ret]

\* printf("serial,%zu,%d,1,%.9f\n", ...) or printf("parallel,...,threads,..");
\* return 0.
MainPrint ==
    /\ mpc = "call"
    /\ pc = "done"
    /\ out' = Append(out, Record(mode, IF mode = "serial" THEN 1 ELSE threads))
    /\ exitStatus' = 0
    /\ mpc' = "exit"
    /\ UNCHANGED <<kvars, margs, sweep, file, err, runs, icv, failsLeft>>

\* Default sweep: fopen("data/results.csv", "w") fails: perror, return 1.
SweepOpenFail ==
    /\ mpc = "start" /\ mode = "sweep"
    /\ err' = "fopen"
    /\ exitStatus' = 1
    /\ mpc' = "exit"
    /\ UNCHANGED <<kvars, margs, sweep, out, file, runs, icv, failsLeft>>

\* The file is opened and the CSV header written.
SweepOpen ==
    /\ mpc = "start" /\ mode = "sweep"
    /\ file' = <<Header>>
    /\ si' = 0 /\ tr' = 0
    /\ mpc' = "serial_loop"
    /\ UNCHANGED <<kvars, margs, sthreads, out, exitStatus, err, runs, icv, failsLeft>>

\* for (tr = 0; tr < trials; ++tr) run_grover_once(N, target, iterations, 0, 1)
SweepCallSerial_extra ==
    /\ mpc = "serial_loop"
    /\ si < n_sizes
    /\ tr <= trials
    /\ Call(sizes[si + 1], SweepTarget(sizes[si + 1]), Iterations(sizes[si + 1]), 0, 1)
    /\ mpc' = "serial_call"
    /\ UNCHANGED <<margs, sweep, io, err, icv, failsLeft>>
SweepCallSerial ==
    /\ mpc = "serial_loop"
    /\ si < n_sizes
    /\ tr < trials
    /\ Call(sizes[si + 1], SweepTarget(sizes[si + 1]), Iterations(sizes[si + 1]), 0, 1)
    /\ mpc' = "serial_call"
    /\ UNCHANGED <<margs, sweep, io, err, icv, failsLeft>>

\* fprintf(f, "serial,%zu,%d,1,%.9f\n", N, iterations, t); ++tr
SweepRecordSerial ==
    /\ mpc = "serial_call"
    /\ pc = "done"
    /\ file' = Append(file, Record("serial", 1))
    /\ tr' = tr + 1
    /\ mpc' = "serial_loop"
    /\ UNCHANGED <<kvars, margs, si, sthreads, out, exitStatus, err, runs, icv, failsLeft>>

\* The serial trials are over: int threads = omp_get_max_threads();
SweepToParallel ==
    /\ mpc = "serial_loop"
    /\ si < n_sizes
    /\ tr >= trials
    /\ sthreads' = icv
    /\ tr' = 0
    /\ mpc' = "parallel_loop"
    /\ UNCHANGED <<kvars, margs, si, io, err, runs, icv, failsLeft>>

\* for (tr = 0; tr < trials; ++tr) run_grover_once(N, .., 1, threads)
SweepCallParallel ==
    /\ mpc = "parallel_loop"
    /\ tr < trials
    /\ Call(sizes[si + 1], SweepTarget(sizes[si + 1]), Iterations(sizes[si + 1]),
            1, sthreads)
    /\ mpc' = "parallel_call"
    /\ UNCHANGED <<margs, sweep, io, err, icv, failsLeft>>

\* fprintf(f, "parallel,%zu,%d,%d,%.9f\n", N, iterations, threads, t); ++tr
SweepRecordParallel ==
    /\ mpc = "parallel_call"
    /\ pc = "done"
    /\ file' = Append(file, Record("parallel", sthreads))
    /\ tr' = tr + 1
    /\ mpc' = "parallel_loop"
    /\ UNCHANGED <<kvars, margs, si, sthreads, out, exitStatus, err, runs, icv, failsLeft>>

\* The parallel trials are over: fflush(f); printf("Completed N=%zu\n"); ++si
SweepNextSize ==
    /\ mpc = "parallel_loop"
    /\ tr >= trials
    /\ out' = Append(out, [msg |-> "Completed", N |-> sizes[si + 1]])
    /\ si' = si + 1
    /\ tr' = 0
    /\ mpc' = "serial_loop"
    /\ UNCHANGED <<kvars, margs, sthreads, file, exitStatus, err, runs, icv, failsLeft>>

\* si == n_sizes: fclose(f); printf("Results written ..."); return 0.
SweepDone ==
    /\ mpc = "serial_loop"
    /\ si >= n_sizes
    /\ out' = Append(out, [msg |-> "Results written", N |-> 0])
    /\ exitStatus' = 0
    /\ mpc' = "exit"
    /\ UNCHANGED <<kvars, margs, sweep, file, err, runs, icv, failsLeft>>

NextMain ==
    \/ MainSerialReject
    \/ MainSerialCall
    \/ MainParallelReject
    \/ MainParallelCall
    \/ MainPrint
    \/ SweepOpenFail
    \/ SweepOpen
    \/ SweepCallSerial
    \/ SweepRecordSerial
    \/ SweepToParallel
    \/ SweepCallParallel
    \/ SweepRecordParallel
    \/ SweepNextSize
    \/ SweepDone
    \/ MallocOkMain
    \/ MallocFail
    \/ InitOverflow
    \/ RoundsMain
    \/ Return

SpecMain == InitMain /\ [][NextMain]_vars

\* ------------------------------------------------------------ properties
RoundBoundary == pc = "loop"

\* C1: applying diffusion twice in succession, with no oracle in between,
\* returns exactly the vector it started from, for the serial diffusion and
\* for the parallel diffusion with every thread count (every even number of
\* successive diffusions does).
C1_RoundTrip ==
    (~useOracle /\ RoundBoundary /\ it % 2 = 0) => a = a0

C1_Witness ==
    /\ ~useOracle /\ RoundBoundary /\ it = 2
    /\ parallel = 1 /\ threads = MaxKT /\ N = MaxLen
    /\ a = a0 /\ pre # a0
    /\ a0[0] # a0[1]

\* C2: for the same input vector, every thread count, every split of the
\* indices into contiguous chunks and every order of combining the partial
\* sums, diffusion_parallel leaves the vector diffusion_serial leaves; so a run
\* of rounds with the parallel strategy ends in the vector of the serial run.
C2_StrategyEquivalence ==
    (parallel # 0 /\ RoundBoundary) =>
        /\ a = ref
        /\ it > 0 => a = diffusion_serial(pre, N)

C2_Witness ==
    /\ parallel # 0 /\ threads = MaxKT /\ N = MaxLen /\ useOracle
    /\ RoundBoundary /\ it = MaxCalls
    /\ a = ref /\ a # a0 /\ a # pre
    /\ a0[0] # a0[1]

Vec4(x0, x1, x2, x3) == (0 :> x0) @@ (1 :> x1) @@ (2 :> x2) @@ (3 :> x3)

\* C3: with N = 4 and target = 1 the vector starts as [1/2, 1/2, 1/2, 1/2], is
\* [1/2, -1/2, 1/2, 1/2] after the oracle of round 1, [0, 1, 0, 0] after the
\* diffusion of round 1 (mean 1/4), [0, -1, 0, 0] after the oracle of round 2
\* and [-1/2, 1/2, -1/2, -1/2] after the diffusion of round 2 (mean -1/4), with
\* the serial and with the parallel strategy for every thread count.
C3_Scenario ==
    (N = 4 /\ target = 1) =>
        /\ (pc = "loop" /\ it = 0) =>
              a = Vec4(Rat(1, 2), Rat(1, 2), Rat(1, 2), Rat(1, 2))
        /\ (pc = "diffusion" /\ it = 0) =>
              a = Vec4(Rat(1, 2), Rat(-1, 2), Rat(1, 2), Rat(1, 2))
        /\ (pc = "update" /\ it = 0) => mean = Rat(1, 4)
        /\ (pc = "loop" /\ it = 1) =>
              a = Vec4(Rat(0, 1), Rat(1, 1), Rat(0, 1), Rat(0, 1))
        /\ (pc = "diffusion" /\ it = 1) =>
              a = Vec4(Rat(0, 1), Rat(-1, 1), Rat(0, 1), Rat(0, 1))
        /\ (pc = "update" /\ it = 1) => mean = Rat(-1, 4)
        /\ (pc = "loop" /\ it = 2) =>
              a = Vec4(Rat(-1, 2), Rat(1, 2), Rat(-1, 2), Rat(-1, 2))

C3_Witness ==
    /\ N = 4 /\ target = 1 /\ parallel = 1 /\ threads = 4
    /\ pc = "loop" /\ it = 2
    /\ a = Vec4(Rat(-1, 2), Rat(1, 2), Rat(-1, 2), Rat(-1, 2))

\* C4: in run_grover_once the oracle of a round has completed before the
\* diffusion of that round reads or writes anything, every thread of a
\* diffusion has executed all its iterations before the next oracle (or the
\* return) begins, and a run that returns has performed exactly `iterations`
\* rounds, each one oracle followed by one diffusion.
C4_RoundOrdering ==
    /\ it <= iterations
    /\ pc = "loop" =>
          /\ nOracle = it /\ nDiff = it
          /\ \A w \in Team : ~Pending(w)
    /\ pc \in {"diffusion", "reduce", "update"} =>
          /\ nOracle = it + 1 /\ nDiff = it
    /\ pc = "diffusion" => \A w \in Team : ~Pending(w)
    /\ (pc = "done" /\ ret = "elapsed") =>
          /\ nOracle = iterations /\ nDiff = iterations /\ it = iterations
          /\ \A w \in Team : ~Pending(w)

C4_Witness ==
    /\ pc = "done" /\ ret = "elapsed"
    /\ parallel = 1 /\ threads = 2 /\ N = 4 /\ iterations = MaxIter
    /\ nOracle = MaxIter /\ nDiff = MaxIter

\* The first iteration of thread w's chunk; its last is sched[w] - 1.
ChunkLo(w) == IF w = 1 THEN 0 ELSE sched[w - 1]
Owners(i) == {w \in Team : ChunkLo(w) <= i /\ i < sched[w]}

\* C5: inside one diffusion_parallel call no index is written by a thread
\* while another thread reads or writes it: the first loop writes nothing to
\* the vector; the second loop starts only when every thread's partial sum
\* is in the sum the mean is computed from; in both loops the threads' chunks
\* are pairwise disjoint and cover 0..N-1, no two threads are about to access
\* the same index, and every index is rewritten exactly once.
C5_RaceFreedom ==
    /\ pc \in {"reduce", "update"} =>
          /\ \A i \in 0..(N - 1) : Cardinality(Owners(i)) = 1
          /\ \A w \in Team : ChunkLo(w) <= wpos[w] /\ wpos[w] <= sched[w]
          /\ \A v, w \in Team :
                (v # w /\ Pending(v) /\ Pending(w)) => wpos[v] # wpos[w]
    /\ pc = "reduce" => a = pre
    /\ pc = "update" =>
          /\ wjoined = Team
          /\ sum = SumUpTo(pre, N)
          /\ mean = RDiv(sum, N)
          /\ \A i \in 0..(N - 1) : \A w \in Owners(i) :
                a[i] = IF i < wpos[w] THEN Reflect(mean, pre[i]) ELSE pre[i]

C5_Witness ==
    /\ pc = "update" /\ N = 4 /\ threads = 2
    /\ Pending(1) /\ Pending(2)
    /\ wpos[1] > ChunkLo(1) /\ wpos[2] > ChunkLo(2)
    /\ a # pre

SignPow(k, x) == IF k % 2 = 0 THEN x ELSE RNeg(x)

\* C9: on a one-element vector the diffusion (serial, and parallel with every
\* thread count) changes nothing and the oracle flips the element's sign, so
\* after round k the element is (-1)^k times its initial value.
C9_SingleElement ==
    (N = 1 /\ pc \in {"loop", "diffusion", "reduce", "update"}) =>
        /\ pc = "loop" => a[0] = SignPow(it, a0[0])
        /\ pc # "loop" => a[0] = SignPow(it + 1, a0[0])
        /\ (pc = "loop" /\ it > 0) => a = pre
        /\ a0[0] = Rat(1, 1)

C9_Witness ==
    /\ N = 1 /\ pc = "loop" /\ it = MaxIter /\ parallel = 1 /\ threads = MaxT
    /\ a[0] = SignPow(MaxIter, Rat(1, 1))

\* A single-run invocation whose thread count, if it has one, is valid.
SingleRun == mode = "serial" \/ (mode = "parallel" /\ argT >= 1)
NoWorkDone == nAlloc = 0 /\ nOracle = 0 /\ nDiff = 0 /\ out = <<>>

\* The command-line value is a positive power of two.
ValidSize(n) == n > 0 /\ \E e \in 0..WordBits : n = Pow2(e)

\* C6: a parallel run requested with T = 0 or a negative T (and an N that
\* passes the size validation) ends with an error before any work: no vector
\* is allocated, no oracle or diffusion step runs, no record line is printed
\* and the exit status is not zero.
C6_ThreadCountValidated ==
    (mode = "parallel" /\ argT <= 0 /\ ValidSize(argN)) =>
        /\ NoWorkDone
        /\ mpc = "exit" => exitStatus # 0

\* C7: in the serial and parallel modes every N that is not a positive power
\* of two (0, negative, 6, ...) is rejected before allocation: no vector, no
\* round, no record line, a non-zero exit status; every positive power of two
\* is accepted.
C7_SizeValidated ==
    SingleRun =>
        IF ValidSize(argN)
        THEN mpc # "start" => (runs # <<>> /\ err # "N must be power of two")
        ELSE /\ NoWorkDone
             /\ runs = <<>>
             /\ mpc # "start" =>
                   (mpc = "exit" /\ exitStatus # 0 /\ err = "N must be power of two")

\* C8: when the vector cannot be allocated no round of the run is executed,
\* no vector is exposed, run_grover_once reports the failure (-1.0), and a
\* single-run invocation (of a valid size) prints no record and exits with a
\* non-zero status.
C8_AllocFailureReported ==
    (SingleRun /\ ValidSize(argN) /\ err = "allocation failed") =>
        /\ ret = "-1.0"
        /\ nOracle = 0 /\ nDiff = 0 /\ a = <<>>
        /\ out = <<>>
        /\ mpc = "exit" => exitStatus # 0

SweepRuns == 2 * trials * n_sizes

\* The k-th call of run_grover_once the sweep is to make.
ExpectedRun(k) ==
    LET sz == sizes[((k - 1) \div (2 * trials)) + 1]
        p  == (k - 1) % (2 * trials)
    IN  [N |-> sz, target |-> sz \div 3, iterations |-> Iterations(sz),
         parallel |-> IF p < trials THEN 0 ELSE 1,
         threads |-> IF p < trials THEN 1 ELSE icv]

====
